---- MODULE Spec2Model ----
(***************************************************************************)
(* The lock protocol of lib/lock-protocol.js over a ZooKeeper-style store. *)
(* One resource (ctx.resourceName) is modelled; a node name stands for the *)
(* path resourceName/name.  A store call is two steps: the store serves    *)
(* the request, and later the client runs the callback on the answer       *)
(* (...Cb).  The request is served in the step that sends it: the handler  *)
(* that sends it may itself run arbitrarily late and touches only its own  *)
(* session, so a delay between sending and serving adds no behaviour.  The *)
(* answer stays in flight, in resp or unlocks, until its callback runs.    *)
(***************************************************************************)
EXTENDS Integers, Sequences, FiniteSets, TLC

\* ------------------------------------------------------------------ bounds
NumSessions == 2
MaxRetry == 1
MaxWaitMs == 1
\* for the backoff computation alone: collision counts and wait units
MaxCollision == 4
MaxBackoffWaitMs == 2

Sessions == 1..NumSessions

\* resourceId values the callers choose from: "x" and "y" (as code units)
ResourceIds == {<<120>>, <<121>>}

\* width of the zero-padded sequence suffix of an EPHEMERAL_SEQUENTIAL node
SeqWidth == 10

\* JavaScript undefined: an unset ctx field, sorted[-2], a missing callback arg
None == <<>>

VARIABLES
  \* the store
  nodes,             \* children of resourceName
  nextSeq,           \* the parent's sequence counter
  watches,           \* registered one-shot watches, <<session, node name>>
  events,            \* watch events fired and not yet delivered
  \* the request (ctx fields set by the caller)
  resourceId, ttl, hasMaxRetry, maxRetryCount, initialRetryWaitMs,
  \* the session (ctx fields set by the protocol)
  seqZnode, acquiredResource, lastChildId, collisionCount,
  \* control: position of the acquisition chain, answer in flight, timers
  pc, resp, nextDelay, ttlTimer, unlocks,
  \* what the caller observes: the arguments of the lock callbacks so far,
  \* of the latest unlock callback, the ttlExpired events, the outcome of
  \* the cleanup remove
  lockReports, unlockReports, ttlEvents, cleanupDone,
  \* the environment: may store calls fail, may the store drop nodes
  storeErrors, nodeLoss

storeVars == <<nodes, nextSeq, watches, events>>
reqVars   == <<resourceId, ttl, hasMaxRetry, maxRetryCount, initialRetryWaitMs>>
envVars   == <<storeErrors, nodeLoss>>
vars == <<nodes, nextSeq, watches, events,
          resourceId, ttl, hasMaxRetry, maxRetryCount, initialRetryWaitMs,
          seqZnode, acquiredResource, lastChildId, collisionCount,
          pc, resp, nextDelay, ttlTimer, unlocks,
          lockReports, unlockReports, ttlEvents, cleanupDone,
          storeErrors, nodeLoss>>

\* ------------------------------------------------------- pure functions

\* the store's "%010d" suffix of sequence number n
Pad(n) == [i \in 1..SeqWidth |-> 48 + ((n \div (10 ^ (SeqWidth - i))) % 10)]

\* the name create() assigns: the requested last path segment plus the suffix
NodeName(rid, n) == rid \o Pad(n)

\* string comparison of Array.prototype.sort(): by code units, a proper
\* prefix first
LexLess(a, b) ==
  \E i \in 1..(Len(a) + 1) :
    /\ \A j \in 1..(i - 1) : j <= Len(b) /\ a[j] = b[j]
    /\ \/ i = Len(a) + 1 /\ i <= Len(b)
       \/ i <= Len(a) /\ i <= Len(b) /\ a[i] < b[i]

RECURSIVE sort(_)
sort(children) ==
  IF children = {} THEN <<>>
  ELSE LET m == CHOOSE x \in children : \A y \in children \ {x} : LexLess(x, y)
       IN <<m>> \o sort(children \ {m})

\* sorted[i] with JavaScript's 0-based index; undefined out of range
At(sorted, i) == IF i >= 0 /\ i < Len(sorted) THEN sorted[i + 1] ELSE None

\* sorted.findIndex(e => e === name): 0-based, -1 when absent
findIndex(sorted, name) ==
  IF \E k \in 1..Len(sorted) : sorted[k] = name
  THEN (CHOOSE k \in 1..Len(sorted) :
          sorted[k] = name /\ \A j \in 1..(k - 1) : sorted[j] # name) - 1
  ELSE -1

\* !ctx.maxRetryCount is false: the option is present and not 0
RetrySet(s) == hasMaxRetry[s] /\ maxRetryCount[s] # 0

Pow2(n) == 2 ^ n
Min(a, b) == IF a < b THEN a ELSE b

\* the delay bound without the cap of line 159
maxDelay_NoCap(s) == Pow2(collisionCount[s]) * initialRetryWaitMs[s]

\* lines 158-159
maxDelay(s) ==
  Min(Pow2(collisionCount[s]) * initialRetryWaitMs[s], initialRetryWaitMs[s] * 10)

NoResp == [ready |-> FALSE, err |-> FALSE, path |-> None, children |-> {},
           stat |-> FALSE]
Answer(e, p, c, st) ==
  [ready |-> TRUE, err |-> e, path |-> p, children |-> c, stat |-> st]

\* ------------------------------------------------------------------ Init
\* the state before any lock call, but for the environment
Fresh ==
  /\ nodes = {} /\ nextSeq = 0 /\ watches = {} /\ events = {}
  /\ resourceId = [s \in Sessions |-> None]
  /\ ttl = [s \in Sessions |-> FALSE]
  /\ hasMaxRetry = [s \in Sessions |-> FALSE]
  /\ maxRetryCount = [s \in Sessions |-> 0]
  /\ initialRetryWaitMs = [s \in Sessions |-> 0]
  /\ seqZnode = [s \in Sessions |-> None]
  /\ acquiredResource = [s \in Sessions |-> None]
  /\ lastChildId = [s \in Sessions |-> None]
  /\ collisionCount = [s \in Sessions |-> 0]
  /\ pc = [s \in Sessions |-> "init"]
  /\ resp = [s \in Sessions |-> NoResp]
  /\ nextDelay = [s \in Sessions |-> 0]
  /\ ttlTimer = [s \in Sessions |-> "off"]
  /\ unlocks = [s \in Sessions |-> {}]
  /\ lockReports = [s \in Sessions |-> <<>>]
  /\ unlockReports = [s \in Sessions |-> <<>>]
  /\ ttlEvents = [s \in Sessions |-> <<>>]
  /\ cleanupDone = [s \in Sessions |-> "none"]

\* the general environment: store calls may fail and nodes may be dropped
Init == Fresh /\ storeErrors = TRUE /\ nodeLoss = TRUE

\* the store answers every call and keeps every node until it is removed
InitReliable == Fresh /\ storeErrors = FALSE /\ nodeLoss = FALSE

\* the store answers every call, but may drop nodes
InitLossy == Fresh /\ storeErrors = FALSE /\ nodeLoss = TRUE


\* ------------------------------------------------------- the store

\* the store deletes a node and fires the watches set on it
remove(path) ==
  /\ nodes' = nodes \ {path}
  /\ events' = events \cup {w \in watches : w[2] = path}
  /\ watches' = {w \in watches : w[2] # path}
  /\ UNCHANGED nextSeq

\* client.remove(path, -1, cb) served: ok, NO_NODE, or a store/network error
removeServed(path, e) ==
  \/ /\ path \in nodes
     /\ remove(path)
     /\ e = FALSE
  \/ /\ path \notin nodes
     /\ UNCHANGED storeVars
     /\ e = TRUE
  \/ /\ storeErrors
     /\ UNCHANGED storeVars
     /\ e = TRUE

\* ------------------------------------------------- protocol subroutines

\* getChildren(ctx): client.getChildren(resourceName, null, cb)
getChildren(s) ==
  /\ pc' = [pc EXCEPT ![s] = "getChildren"]
  /\ \/ resp' = [resp EXCEPT ![s] = Answer(FALSE, None, nodes, FALSE)]
     \/ /\ storeErrors
        /\ resp' = [resp EXCEPT ![s] = Answer(TRUE, None, {}, FALSE)]

\* exists with no watch function ever passed
exists_NoWatch(s, path) ==
  /\ pc' = [pc EXCEPT ![s] = "exists"]
  /\ \/ resp' = [resp EXCEPT ![s] = Answer(FALSE, None, {}, path \in nodes)]
     \/ /\ storeErrors
        /\ resp' = [resp EXCEPT ![s] = Answer(TRUE, None, {}, FALSE)]
  /\ UNCHANGED watches

\* exists(ctx): client.exists(resourceName/lastChildId, watchFunc, cb); the
\* watch function is passed only when !ctx.maxRetryCount
exists(s, path) ==
  /\ pc' = [pc EXCEPT ![s] = "exists"]
  /\ \/ /\ resp' = [resp EXCEPT ![s] = Answer(FALSE, None, {}, path \in nodes)]
        /\ watches' = IF RetrySet(s) THEN watches
                      ELSE watches \cup {<<s, path>>}
     \/ /\ storeErrors
        /\ resp' = [resp EXCEPT ![s] = Answer(TRUE, None, {}, FALSE)]
        /\ UNCHANGED watches

\* lockAcquired that never arms the TTL timer
lockAcquired_NoTtl(s) ==
  /\ acquiredResource' = [acquiredResource EXCEPT ![s] = seqZnode[s]]
  /\ UNCHANGED ttlTimer
  /\ lockReports' = [lockReports EXCEPT ![s] = Append(@, "ok")]
  /\ pc' = [pc EXCEPT ![s] = "acquired"]
  /\ resp' = [resp EXCEPT ![s] = NoResp]

\* lockAcquired that arms the TTL timer without testing ctx.ttl
lockAcquired_AlwaysTtl(s) ==
  /\ acquiredResource' = [acquiredResource EXCEPT ![s] = seqZnode[s]]
  /\ ttlTimer' = [ttlTimer EXCEPT ![s] = "armed"]
  /\ lockReports' = [lockReports EXCEPT ![s] = Append(@, "ok")]
  /\ pc' = [pc EXCEPT ![s] = "acquired"]
  /\ resp' = [resp EXCEPT ![s] = NoResp]

\* lockAcquired(ctx): set acquiredResource, arm the TTL timer, cb(null, ctx)
lockAcquired(s) ==
  /\ acquiredResource' = [acquiredResource EXCEPT ![s] = seqZnode[s]]
  /\ ttlTimer' = [ttlTimer EXCEPT ![s] = IF ttl[s] THEN "armed" ELSE @]
  /\ lockReports' = [lockReports EXCEPT ![s] = Append(@, "ok")]
  /\ pc' = [pc EXCEPT ![s] = "acquired"]
  /\ resp' = [resp EXCEPT ![s] = NoResp]

\* lockFailed that reports at once and leaves the created node behind
lockFailed_NoCleanup(s) ==
  /\ pc' = [pc EXCEPT ![s] = "failed"]
  /\ resp' = [resp EXCEPT ![s] = NoResp]
  /\ lockReports' = [lockReports EXCEPT ![s] = Append(@, "fail")]
  /\ UNCHANGED storeVars

\* lockFailed that issues the cleanup remove whether or not a node was created
lockFailed_AlwaysCleanup(s) ==
  /\ pc' = [pc EXCEPT ![s] = "cleanup"]
  /\ \E e \in BOOLEAN :
       /\ removeServed(seqZnode[s], e)
       /\ resp' = [resp EXCEPT ![s] = Answer(e, None, {}, FALSE)]
  /\ UNCHANGED lockReports

\* lockFailed that cleans up the node it was waiting on, not its own
lockFailed_RemoveWatched(s) ==
  IF seqZnode[s] # None
  THEN /\ pc' = [pc EXCEPT ![s] = "cleanup"]
       /\ \E e \in BOOLEAN :
            /\ removeServed(lastChildId[s], e)
            /\ resp' = [resp EXCEPT ![s] = Answer(e, None, {}, FALSE)]
       /\ UNCHANGED lockReports
  ELSE /\ pc' = [pc EXCEPT ![s] = "failed"]
       /\ resp' = [resp EXCEPT ![s] = NoResp]
       /\ lockReports' = [lockReports EXCEPT ![s] = Append(@, "fail")]
       /\ UNCHANGED storeVars

\* lockFailed that reports the failure at once and again after the cleanup
lockFailed_ReportTwice(s) ==
  IF seqZnode[s] # None
  THEN /\ pc' = [pc EXCEPT ![s] = "cleanup"]
       /\ \E e \in BOOLEAN :
            /\ removeServed(seqZnode[s], e)
            /\ resp' = [resp EXCEPT ![s] = Answer(e, None, {}, FALSE)]
       /\ lockReports' = [lockReports EXCEPT ![s] = Append(@, "fail")]
  ELSE /\ pc' = [pc EXCEPT ![s] = "failed"]
       /\ resp' = [resp EXCEPT ![s] = NoResp]
       /\ lockReports' = [lockReports EXCEPT ![s] = Append(@, "fail")]
       /\ UNCHANGED storeVars

\* lockFailed(ctx, err): remove the created node, if any, then cb(error)
lockFailed(s) ==
  IF seqZnode[s] # None
  THEN /\ pc' = [pc EXCEPT ![s] = "cleanup"]
       /\ \E e \in BOOLEAN :
            /\ removeServed(seqZnode[s], e)
            /\ resp' = [resp EXCEPT ![s] = Answer(e, None, {}, FALSE)]
       /\ UNCHANGED lockReports
  ELSE /\ pc' = [pc EXCEPT ![s] = "failed"]
       /\ resp' = [resp EXCEPT ![s] = NoResp]
       /\ lockReports' = [lockReports EXCEPT ![s] = Append(@, "fail")]
       /\ UNCHANGED storeVars

\* ctx.cb(...) of m.unlock: kind tells the no-op from the remove
Report(s, origin, kind, e, path) ==
  unlockReports' = [unlockReports EXCEPT ![s] =
     <<[origin |-> origin, kind |-> kind, err |-> e, path |-> path]>>]

\* m.unlock without the early return of line 67: it always calls remove
unlock_AlwaysRemove(s, origin) ==
  /\ \E e \in BOOLEAN :
       /\ removeServed(acquiredResource[s], e)
       /\ unlocks' = [unlocks EXCEPT ![s] = @ \cup
            {[origin |-> origin, err |-> e, path |-> acquiredResource[s]]}]
  /\ UNCHANGED unlockReports

\* m.unlock(ctx): nothing held: setImmediate(ctx.cb), a success; else
\* client.remove(ctx.acquiredResource, -1, cb)
unlock(s, origin) ==
  IF acquiredResource[s] = None
  THEN /\ Report(s, origin, "noop", FALSE, None)
       /\ UNCHANGED <<storeVars, unlocks>>
  ELSE /\ \E e \in BOOLEAN :
            /\ removeServed(acquiredResource[s], e)
            /\ unlocks' = [unlocks EXCEPT ![s] = @ \cup
                 {[origin |-> origin, err |-> e, path |-> acquiredResource[s]]}]
       /\ UNCHANGED unlockReports

\* floor(Math.random() * maxDelay)
nextDelayChoices(s) == IF maxDelay(s) = 0 THEN {0} ELSE 0..(maxDelay(s) - 1)

RetryOptions ==
  {[has |-> FALSE, n |-> 0, wait |-> 0]} \cup
  [has : {TRUE}, n : 0..MaxRetry, wait : 1..MaxWaitMs]

\* ------------------------------------------------------------- m.lock

\* the caller's lock(request): create(resourceName/resourceId, SEQUENTIAL).
\* Sessions are interchangeable, so they are numbered in the order of their
\* lock calls.
Lock(s) ==
  /\ pc[s] = "init"
  /\ \A r \in Sessions : r < s => pc[r] # "init"
  /\ \E rid \in ResourceIds, t \in BOOLEAN, o \in RetryOptions :
       /\ resourceId' = [resourceId EXCEPT ![s] = rid]
       /\ ttl' = [ttl EXCEPT ![s] = t]
       /\ hasMaxRetry' = [hasMaxRetry EXCEPT ![s] = o.has]
       /\ maxRetryCount' = [maxRetryCount EXCEPT ![s] = o.n]
       /\ initialRetryWaitMs' = [initialRetryWaitMs EXCEPT ![s] = o.wait]
       /\ \/ LET name == NodeName(rid, nextSeq) IN
               /\ nodes' = nodes \cup {name}
               /\ nextSeq' = nextSeq + 1
               /\ events' = events \cup {w \in watches : w[2] = name}
               /\ watches' = {w \in watches : w[2] # name}
               /\ resp' = [resp EXCEPT ![s] = Answer(FALSE, name, {}, FALSE)]
          \/ /\ storeErrors
             /\ resp' = [resp EXCEPT ![s] = Answer(TRUE, None, {}, FALSE)]
             /\ UNCHANGED storeVars
  /\ pc' = [pc EXCEPT ![s] = "create"]
  /\ UNCHANGED <<envVars, seqZnode, acquiredResource, lastChildId,
                 collisionCount, nextDelay, ttlTimer, unlocks, lockReports,
                 unlockReports, ttlEvents, cleanupDone>>

\* the callback of create (lines 50-61)
CreateCb(s) ==
  /\ pc[s] = "create"
  /\ IF resp[s].err
     THEN /\ lockFailed(s)
          /\ UNCHANGED seqZnode
     ELSE /\ seqZnode' = [seqZnode EXCEPT ![s] = resp[s].path]
          /\ getChildren(s)
          /\ UNCHANGED <<storeVars, lockReports>>
  /\ UNCHANGED <<reqVars, envVars, acquiredResource, lastChildId,
                 collisionCount, nextDelay, ttlTimer, unlocks,
                 unlockReports, ttlEvents, cleanupDone>>

\* the callback of getChildren (lines 92-113); sorted, index and the
\* predecessor are computed once each, as the code does
GetChildrenCb(s) ==
  /\ pc[s] = "getChildren"
  /\ IF resp[s].err
     THEN /\ lockFailed(s)
          /\ UNCHANGED <<acquiredResource, ttlTimer, lastChildId>>
     ELSE \E sorted \in {sort(resp[s].children)} :
          IF seqZnode[s] = At(sorted, 0)
          THEN /\ lockAcquired(s)
               /\ UNCHANGED <<storeVars, lastChildId>>
          ELSE \E index \in {findIndex(sorted, seqZnode[s])} :
               \E prev \in {At(sorted, index - 1)} :
                 /\ lastChildId' = [lastChildId EXCEPT ![s] = prev]
                 /\ exists(s, prev)
                 /\ UNCHANGED <<nodes, nextSeq, events, acquiredResource,
                                ttlTimer, lockReports>>
  /\ UNCHANGED <<reqVars, envVars, seqZnode, collisionCount,
                 nextDelay, unlocks, unlockReports, ttlEvents, cleanupDone>>

\* the callback of exists (lines 133-176)
ExistsCb(s) ==
  /\ pc[s] = "exists"
  /\ IF resp[s].err
     THEN /\ lockFailed(s)
          /\ UNCHANGED nextDelay
     ELSE IF resp[s].stat
     THEN IF RetrySet(s)
          THEN IF collisionCount[s] > maxRetryCount[s]
               THEN /\ lockFailed(s)
                    /\ UNCHANGED nextDelay
               ELSE /\ \E d \in nextDelayChoices(s) :
                         nextDelay' = [nextDelay EXCEPT ![s] = d]
                    /\ pc' = [pc EXCEPT ![s] = "backoff"]
                    /\ resp' = [resp EXCEPT ![s] = NoResp]
                    /\ UNCHANGED <<storeVars, lockReports>>
          ELSE /\ pc' = [pc EXCEPT ![s] = "watching"]
               /\ resp' = [resp EXCEPT ![s] = NoResp]
               /\ UNCHANGED <<storeVars, nextDelay, lockReports>>
     ELSE /\ getChildren(s)
          /\ UNCHANGED <<storeVars, nextDelay, lockReports>>
  /\ UNCHANGED <<reqVars, envVars, seqZnode, acquiredResource,
                 lastChildId, collisionCount, ttlTimer, unlocks,
                 unlockReports, ttlEvents, cleanupDone>>

\* a watch function that takes the predecessor's disappearance for the lock
WatchCb_AssumeAcquired(s) ==
  /\ pc[s] = "watching"
  /\ \E e \in events :
       /\ e[1] = s
       /\ events' = events \ {e}
  /\ lockAcquired(s)
  /\ UNCHANGED <<nodes, nextSeq, watches, reqVars, envVars, seqZnode,
                 lastChildId, collisionCount, nextDelay, unlocks,
                 unlockReports, ttlEvents, cleanupDone>>

\* the watch function (lines 125-127), run when the store's event arrives;
\* the store delivers the answer of exists before the event of its watch
WatchCb(s) ==
  /\ pc[s] = "watching"
  /\ \E e \in events :
       /\ e[1] = s
       /\ events' = events \ {e}
  /\ getChildren(s)
  /\ UNCHANGED <<nodes, nextSeq, watches, reqVars, envVars, seqZnode,
                 acquiredResource, lastChildId, collisionCount, nextDelay,
                 ttlTimer, unlocks, lockReports, unlockReports, ttlEvents,
                 cleanupDone>>

\* a retry timer that forgets to count the retry
BackoffTimer_NoCount(s) ==
  /\ pc[s] = "backoff"
  /\ nextDelay' = [nextDelay EXCEPT ![s] = 0]
  /\ getChildren(s)
  /\ UNCHANGED <<storeVars, reqVars, envVars, seqZnode, acquiredResource,
                 lastChildId, collisionCount, ttlTimer, unlocks, lockReports,
                 unlockReports, ttlEvents, cleanupDone>>

\* the retry timer (lines 167-170)
BackoffTimer(s) ==
  /\ pc[s] = "backoff"
  /\ collisionCount' = [collisionCount EXCEPT ![s] = @ + 1]
  /\ nextDelay' = [nextDelay EXCEPT ![s] = 0]
  /\ getChildren(s)
  /\ UNCHANGED <<storeVars, reqVars, envVars, seqZnode, acquiredResource,
                 lastChildId, ttlTimer, unlocks, lockReports, unlockReports,
                 ttlEvents, cleanupDone>>

\* the callback of the cleanup remove (lines 33-35): the error is ignored
CleanupCb(s) ==
  /\ pc[s] = "cleanup"
  /\ lockReports' = [lockReports EXCEPT ![s] = Append(@, "fail")]
  /\ cleanupDone' = [cleanupDone EXCEPT ![s] = IF resp[s].err THEN "err" ELSE "ok"]
  /\ pc' = [pc EXCEPT ![s] = "failed"]
  /\ resp' = [resp EXCEPT ![s] = NoResp]
  /\ UNCHANGED <<storeVars, reqVars, envVars, seqZnode, acquiredResource,
                 lastChildId, collisionCount, nextDelay, ttlTimer, unlocks,
                 unlockReports, ttlEvents>>

\* ------------------------------------------------------------ m.unlock

\* the caller's unlock(handle); a caller does not run two of its own
\* operations on one session at a time
Unlock(s) ==
  /\ pc[s] \in {"acquired", "failed"}
  /\ \A u \in unlocks[s] : u.origin # "caller"
  /\ unlock(s, "caller")
  /\ UNCHANGED <<reqVars, envVars, seqZnode, acquiredResource,
                 lastChildId, collisionCount, pc, resp, nextDelay, ttlTimer,
                 lockReports, ttlEvents, cleanupDone>>

\* the TTL timer of lockAcquired fires (lines 14-18): emit, then m.unlock
TtlFire(s) ==
  /\ ttlTimer[s] = "armed"
  /\ ttlTimer' = [ttlTimer EXCEPT ![s] = "fired"]
  /\ ttlEvents' = [ttlEvents EXCEPT ![s] = Append(@, resourceId[s])]
  /\ unlock(s, "ttl")
  /\ UNCHANGED <<reqVars, envVars, seqZnode, acquiredResource,
                 lastChildId, collisionCount, pc, resp, nextDelay,
                 lockReports, cleanupDone>>

\* the callback of the remove of m.unlock (lines 71-79), for the unlock
\* that origin invoked
UnlockDone(s, origin) ==
  /\ \E u \in unlocks[s] :
       /\ u.origin = origin
       /\ unlocks' = [unlocks EXCEPT ![s] = @ \ {u}]
       /\ IF u.err
          THEN /\ Report(s, u.origin, "remove", TRUE, acquiredResource[s])
               /\ UNCHANGED acquiredResource
          ELSE /\ acquiredResource' = [acquiredResource EXCEPT ![s] = None]
               /\ Report(s, u.origin, "remove", FALSE, None)
  /\ UNCHANGED <<storeVars, reqVars, envVars, seqZnode, lastChildId,
                 collisionCount, pc, resp, nextDelay, ttlTimer, lockReports,
                 ttlEvents, cleanupDone>>

UnlockCb(s) == UnlockDone(s, "caller") \/ UnlockDone(s, "ttl")

\* ------------------------------------------------------- the environment

\* the store drops an ephemeral node (its owner's store session ended)
NodeLost ==
  /\ nodeLoss
  /\ \E n \in nodes : remove(n)
  /\ UNCHANGED <<reqVars, envVars, seqZnode, acquiredResource, lastChildId,
                 collisionCount, pc, resp, nextDelay, ttlTimer, unlocks,
                 lockReports, unlockReports, ttlEvents, cleanupDone>>

\* the steps of the acquisition chain that need no caller: at most one is
\* enabled at a time, the one pc[s] names
Chain(s) ==
  \/ CreateCb(s) \/ GetChildrenCb(s) \/ ExistsCb(s) \/ WatchCb(s)
  \/ BackoffTimer(s) \/ CleanupCb(s)

Step(s) ==
  \/ Lock(s) \/ Chain(s)
  \/ Unlock(s) \/ TtlFire(s) \/ UnlockCb(s)

Next == (\E s \in Sessions : Step(s)) \/ NodeLost

Spec == Init /\ [][Next]_vars


NextReliable == \E s \in Sessions : Step(s)

SpecReliable == InitReliable /\ [][NextReliable]_vars

\* Every answer of the store reaches its callback, every event its watch
\* function, every timer fires: the event loop runs what is queued.
Scheduling ==
  \A s \in Sessions :
    /\ WF_vars(Chain(s))
    /\ WF_vars(TtlFire(s))
    /\ WF_vars(UnlockDone(s, "caller")) /\ WF_vars(UnlockDone(s, "ttl"))

FairReliable == SpecReliable /\ Scheduling

SpecLossy == InitLossy /\ [][Next]_vars

FairLossy == SpecLossy /\ Scheduling

\* ... and every holder eventually calls unlock
Release(s) == acquiredResource[s] # None /\ Unlock(s)

FairRelease == FairReliable /\ \A s \in Sessions : WF_vars(Release(s))

\* The backoff computation on its own: session 1 holds the lock and keeps
\* it or releases it, session 2 polls behind it and has just been answered
\* that its predecessor exists, at any collision count a run with a large
\* enough maxRetryCount reaches.
BackoffHolder == NodeName(<<120>>, 0)
BackoffPoller == NodeName(<<120>>, 1)
InitBackoff ==
  /\ nodes = {BackoffHolder, BackoffPoller} /\ nextSeq = 2
  /\ watches = {} /\ events = {}
  /\ resourceId = [s \in Sessions |-> <<120>>]
  /\ ttl = [s \in Sessions |-> FALSE]
  /\ hasMaxRetry = [s \in Sessions |-> s # 1]
  /\ \E n \in 1..MaxCollision, c \in 0..MaxCollision, w \in 1..MaxBackoffWaitMs :
       /\ c <= n + 1
       /\ maxRetryCount = [s \in Sessions |-> IF s = 1 THEN 0 ELSE n]
       /\ collisionCount = [s \in Sessions |-> IF s = 2 THEN c ELSE 0]
       /\ initialRetryWaitMs = [s \in Sessions |-> IF s = 1 THEN 0 ELSE w]
  /\ seqZnode = [s \in Sessions |->
       IF s = 1 THEN BackoffHolder ELSE IF s = 2 THEN BackoffPoller ELSE None]
  /\ acquiredResource = [s \in Sessions |-> IF s = 1 THEN BackoffHolder ELSE None]
  /\ lastChildId = [s \in Sessions |-> IF s = 2 THEN BackoffHolder ELSE None]
  /\ pc = [s \in Sessions |->
       IF s = 1 THEN "acquired" ELSE IF s = 2 THEN "exists" ELSE "failed"]
  /\ resp = [s \in Sessions |->
       IF s = 2 THEN Answer(FALSE, None, {}, TRUE) ELSE NoResp]
  /\ nextDelay = [s \in Sessions |-> 0]
  /\ ttlTimer = [s \in Sessions |-> "off"]
  /\ unlocks = [s \in Sessions |-> {}]
  /\ lockReports = [s \in Sessions |->
       IF s = 1 THEN <<"ok">> ELSE IF s = 2 THEN <<>> ELSE <<"fail">>]
  /\ unlockReports = [s \in Sessions |-> <<>>]
  /\ ttlEvents = [s \in Sessions |-> <<>>]
  /\ cleanupDone = [s \in Sessions |-> "none"]
  /\ storeErrors = FALSE /\ nodeLoss = FALSE

NextBackoff ==
  \E s \in Sessions :
    \/ ExistsCb(s) \/ BackoffTimer(s) \/ GetChildrenCb(s) \/ CleanupCb(s)
    \/ Unlock(s) \/ UnlockDone(s, "caller")

SpecBackoff == InitBackoff /\ [][NextBackoff]_vars

\* ------------------------------------------------------------- sanity

TypeOK ==
  /\ nodes \subseteq {NodeName(r, n) : r \in ResourceIds, n \in 0..NumSessions}
  /\ nextSeq \in 0..NumSessions
  /\ \A s \in Sessions :
       /\ pc[s] \in {"init", "create", "getChildren", "exists", "watching",
                     "backoff", "cleanup", "acquired", "failed"}
       /\ collisionCount[s] \in 0..(MaxRetry + 1)
       /\ ttlTimer[s] \in {"off", "armed", "fired"}
       /\ Len(lockReports[s]) <= 1
       /\ Len(ttlEvents[s]) <= 1

\* a watch event is pending only for a session whose exists answer reported
\* the node, or that is waiting for the event
WatchOrder ==
  \A e \in events :
    \/ pc[e[1]] = "watching"
    \/ pc[e[1]] = "exists" /\ ~resp[e[1]].err /\ resp[e[1]].stat


\* ----------------------------------------------------------- properties

\* the sequence number the store put in a node name: its last SeqWidth digits
RECURSIVE ParseDigits(_)
ParseDigits(d) ==
  IF d = <<>> THEN 0
  ELSE 10 * ParseDigits(SubSeq(d, 1, Len(d) - 1)) + (d[Len(d)] - 48)
SeqOf(name) == ParseDigits(SubSeq(name, Len(name) - SeqWidth + 1, Len(name)))

\* s holds the lock: it was acquired and its node has not been removed
Holding(s) == acquiredResource[s] # None /\ acquiredResource[s] \in nodes

\* the step in which s goes to Acquired
Acquires(s) == acquiredResource[s] = None /\ acquiredResource'[s] # None

\* C1: mutual exclusion: no two sessions hold the lock of the resource at
\* the same time, whatever resourceIds they chose.
C1_MutualExclusion ==
  \A a, b \in Sessions : a # b => ~(Holding(a) /\ Holding(b))

\* C2: acquisition follows the store's sequence numbers: a session never goes
\* to Acquired while a node with a lower sequence number still exists.
C2_AcquireInSequenceOrder ==
  [][\A s \in Sessions :
       Acquires(s) => \A n \in nodes : SeqOf(n) >= SeqOf(seqZnode[s])]_vars

\* C3: when a session goes to Acquired, its node is the lexicographically
\* smallest of the children present in the store.
C3_AcquirerIsSmallest ==
  [][\A s \in Sessions :
       Acquires(s) =>
         /\ seqZnode[s] \in nodes
         /\ \A n \in nodes \ {seqZnode[s]} : LexLess(seqZnode[s], n)]_vars


\* C5: unlock with nothing held is a no-op that reports success: no store
\* remove is issued, store and session stay as they are; so a second unlock
\* after a release succeeds too.
C5_UnlockIdempotent ==
  [][\A s \in Sessions :
       (acquiredResource[s] = None /\ (Unlock(s) \/ TtlFire(s))) =>
         /\ UNCHANGED <<storeVars, unlocks, seqZnode, acquiredResource,
                        lastChildId, collisionCount, pc, resp>>
         /\ Len(unlockReports'[s]) = 1
         /\ unlockReports'[s][1].kind = "noop"
         /\ ~unlockReports'[s][1].err]_vars

\* a second unlock by the caller, after the release, has reported success
C5_Witness ==
  \E s \in Sessions :
    /\ lockReports[s] = <<"ok">> /\ acquiredResource[s] = None
    /\ unlockReports[s] = <<[origin |-> "caller", kind |-> "noop",
                             err |-> FALSE, path |-> None]>>

\* C6: when the remove of unlock fails, unlock reports an error that names
\* the path, and the session keeps acquiredResource: it still counts as
\* holding.
C6_FailedUnlockKeepsHold ==
  [][\A s \in Sessions : \A u \in unlocks[s] :
       (u.err /\ UnlockDone(s, u.origin)) =>
         /\ acquiredResource[s] = u.path
         /\ acquiredResource'[s] = u.path
         /\ unlockReports'[s] = <<[origin |-> u.origin, kind |-> "remove",
                                   err |-> TRUE, path |-> u.path]>>]_vars

\* C7: a lock attempt that fails after its node was created reports the
\* failure only once the cleanup remove has completed; after a successful
\* remove the node is gone; after a failed one the caller still gets the
\* failure, never a success.
C7_FailureCleanup ==
  \A s \in Sessions :
    /\ (pc[s] = "failed" /\ seqZnode[s] # None) => cleanupDone[s] # "none"
    /\ pc[s] = "cleanup" => lockReports[s] = <<>>
    /\ cleanupDone[s] = "ok" => seqZnode[s] \notin nodes
    /\ cleanupDone[s] # "none" => lockReports[s] = <<"fail">>
    /\ pc[s] = "failed" => lockReports[s] = <<"fail">>

\* one attempt failed with its node removed, another with the remove failing
C7_Witness ==
  \E a, b \in Sessions :
    /\ seqZnode[a] # None /\ cleanupDone[a] = "ok" /\ lockReports[a] = <<"fail">>
    /\ seqZnode[b] # None /\ cleanupDone[b] = "err" /\ lockReports[b] = <<"fail">>

\* C9: after a successful unlock that came before the TTL elapsed, no
\* ttlExpired event is emitted and no TTL unlock runs.
C9_UnlockCancelsTtl ==
  [][\A s \in Sessions :
       (ttlTimer[s] = "armed" /\ acquiredResource[s] = None) =>
         (ttlEvents'[s] = ttlEvents[s] /\ ttlTimer'[s] = "armed")]_vars

\* C10: once the TTL action has fired, an unlock by the holder is a no-op
\* success: its remove, if it issues one, is never answered with an error.
C10_UnlockAfterTtlIsNoop ==
  [][\A s \in Sessions :
       (ttlTimer[s] = "fired" /\ Unlock(s)) =>
         \A u \in unlocks'[s] \ unlocks[s] : ~u.err]_vars


\* C4: watch mode: a session waiting on its predecessor's node acquires the
\* lock with no further input of its own, provided every holder releases.
C4_WaiterAcquires ==
  \A b \in Sessions : [](pc[b] = "watching" => <>(pc[b] = "acquired"))

\* b waits with a watch on the node of a, which held the lock; a's unlock
\* has succeeded and the watch event is on its way to b
C4_Witness ==
  \E a, b \in Sessions :
    /\ a # b /\ ~hasMaxRetry[b] /\ ~ttl[b]
    /\ pc[b] = "watching" /\ lastChildId[b] = seqZnode[a]
    /\ <<b, seqZnode[a]>> \in events
    /\ lockReports[a] = <<"ok">> /\ acquiredResource[a] = None
    /\ unlockReports[a] = <<[origin |-> "caller", kind |-> "remove",
                             err |-> FALSE, path |-> None]>>

\* C8: a lock acquired with a TTL is force-released: the timer fires, emits
\* ttlExpired with the session's resourceId and invokes unlock on the
\* session, after which the held node is removed and acquiredResource
\* cleared.
C8_TtlEnforced ==
  /\ \A s \in Sessions :
       []((ttl[s] /\ acquiredResource[s] # None) =>
            <>(/\ ttlEvents[s] = <<resourceId[s]>>
               /\ acquiredResource[s] = None
               /\ seqZnode[s] \notin nodes))
  /\ [][\A s \in Sessions :
          (ttlTimer[s] = "armed" /\ ttlTimer'[s] = "fired") =>
            /\ ttlEvents'[s] = <<resourceId[s]>>
            /\ IF acquiredResource[s] = None
               THEN /\ Len(unlockReports'[s]) = 1
                    /\ unlockReports'[s][1].origin = "ttl"
               ELSE \E u \in unlocks'[s] \ unlocks[s] :
                      u.origin = "ttl" /\ u.path = acquiredResource[s]]_vars

\* the TTL fired on a holder that never called unlock, and released it
C8_Witness ==
  \E s \in Sessions :
    /\ ttl[s] /\ ttlEvents[s] = <<resourceId[s]>> /\ lockReports[s] = <<"ok">>
    /\ unlockReports[s] = <<[origin |-> "ttl", kind |-> "remove",
                             err |-> FALSE, path |-> None]>>
    /\ acquiredResource[s] = None /\ seqZnode[s] \notin nodes

C12_BackoffBound ==
  \A s \in Sessions :
    (pc[s] = "backoff" /\ initialRetryWaitMs[s] > 0) =>
      /\ nextDelay[s] \in Int
      /\ 0 <= nextDelay[s]
      /\ nextDelay[s] <= Min((2 ^ collisionCount[s]) * initialRetryWaitMs[s],
                             10 * initialRetryWaitMs[s])

\* a retry is scheduled at the largest delay the cap allows, at a collision
\* count where 2^collisionCount is above the cap
C12_Witness ==
  \E s \in Sessions :
    /\ pc[s] = "backoff" /\ collisionCount[s] = MaxCollision
    /\ 2 ^ collisionCount[s] > 10
    /\ nextDelay[s] = 10 * initialRetryWaitMs[s] - 1

\* the answer the step leaves in flight for s is that of a listing just sent
FreshListing(s) ==
  /\ pc'[s] = "getChildren"
  /\ resp'[s].ready
  /\ resp'[s].err \/ resp'[s].children = nodes

\* C13: a session goes to Acquired only in the callback of a listing whose
\* answer has the session's node as its minimum.  A waiter that wakes (watch
\* fired, retry timer expired, predecessor found gone) sends a new listing
\* and never goes to Acquired in that step; in polling mode the
\* predecessor-gone branch re-lists without consuming a retry.
C13_AcquireOnlyAfterListing ==
  [][\A s \in Sessions :
       /\ (Acquires(s) \/ (pc[s] # "acquired" /\ pc'[s] = "acquired")) =>
            /\ pc[s] = "getChildren" /\ resp[s].ready /\ ~resp[s].err
            /\ seqZnode[s] \in resp[s].children
            /\ \A c \in resp[s].children \ {seqZnode[s]} : LexLess(seqZnode[s], c)
       /\ (pc[s] \in {"watching", "backoff"} /\ pc'[s] # pc[s]) =>
            FreshListing(s) /\ acquiredResource'[s] = None
       /\ (/\ pc[s] = "exists" /\ pc'[s] # "exists"
           /\ ~resp[s].err /\ ~resp[s].stat) =>
            /\ FreshListing(s) /\ acquiredResource'[s] = None
            /\ collisionCount'[s] = collisionCount[s]]_vars

\* a polling session found its predecessor gone at its first existence
\* check, listed again and acquired, with no retry consumed
C13_Witness ==
  \E s \in Sessions :
    /\ hasMaxRetry[s] /\ maxRetryCount[s] >= 1
    /\ lastChildId[s] # None /\ lastChildId[s] \notin nodes
    /\ collisionCount[s] = 0
    /\ pc[s] = "acquired" /\ lockReports[s] = <<"ok">>

\* C14: mode selection: a session whose request carries maxRetryCount, of
\* any value, 0 included, registers no watch and waits by polling with
\* backoff; only a session without maxRetryCount registers a watch or waits
\* for one.
C14_ModeSelection ==
  /\ \A w \in watches \cup events : ~hasMaxRetry[w[1]]
  /\ \A s \in Sessions :
       /\ pc[s] = "watching" => ~hasMaxRetry[s]
       /\ pc[s] = "backoff" => hasMaxRetry[s]

\* C15: whenever a session enters Waiting, lastChildId is a member of the
\* children list just answered and is the element immediately before the
\* session's own node in sorted order, for every list the store can answer,
\* one without the session's own node included.
C15_WatchedIsPredecessor ==
  [][\A s \in Sessions :
       (pc[s] = "getChildren" /\ pc'[s] = "exists") =>
         /\ lastChildId'[s] \in resp[s].children
         /\ LexLess(lastChildId'[s], seqZnode[s])
         /\ \A c \in resp[s].children :
              ~(LexLess(lastChildId'[s], c) /\ LexLess(c, seqZnode[s]))]_vars

\* C16: when create fails on a fresh session the attempt goes to Failed in
\* the callback of create, the caller is told the lock was not acquired, and
\* the attempt issues no remove, no listing and no existence check: the
\* store is left as it is and no answer is awaited, then or later.
C16_CreateFailure ==
  [][\A s \in Sessions :
       /\ (pc[s] = "create" /\ resp[s].err /\ pc'[s] # "create") =>
            /\ pc'[s] = "failed" /\ seqZnode'[s] = None
            /\ lockReports'[s] = <<"fail">>
            /\ resp'[s] = NoResp /\ unlocks'[s] = {}
            /\ cleanupDone'[s] = "none"
            /\ UNCHANGED storeVars
       /\ (pc[s] = "failed" /\ seqZnode[s] = None) =>
            /\ pc'[s] = "failed" /\ seqZnode'[s] = None
            /\ lockReports'[s] = <<"fail">>
            /\ resp'[s] = NoResp /\ unlocks'[s] = {}
            /\ cleanupDone'[s] = "none"
            /\ \A w \in watches' \cup events' : w[1] # s]_vars

\* a create was refused; the attempt has failed with no node and no cleanup,
\* and the caller's unlock on it has been a no-op
C16_Witness ==
  \E s \in Sessions :
    /\ pc[s] = "failed" /\ seqZnode[s] = None /\ lockReports[s] = <<"fail">>
    /\ cleanupDone[s] = "none"
    /\ Len(unlockReports[s]) = 1 /\ unlockReports[s][1].kind = "noop"

\* C17: the TTL timer is armed exactly once per acquisition, and only when
\* ttl is set: it is armed in the step that acquires and in no other, it
\* fires at most once, and a session that never acquired or has no ttl
\* never emits ttlExpired and never runs a TTL unlock.
C17_TtlArmedOnce ==
  [][\A s \in Sessions :
       /\ (ttlTimer[s] # "off" \/ ttlEvents[s] # <<>>) =>
            ttl[s] /\ lockReports[s] = <<"ok">>
       /\ Len(ttlEvents[s]) <= 1
       /\ (ttlEvents[s] # <<>>) = (ttlTimer[s] = "fired")
       /\ Cardinality({u \in unlocks[s] : u.origin = "ttl"}) <= 1
       /\ (\E u \in unlocks[s] : u.origin = "ttl") => ttlTimer[s] = "fired"
       /\ (Acquires(s) /\ ttl[s]) =>
            ttlTimer[s] = "off" /\ ttlTimer'[s] = "armed"
       /\ (ttlTimer[s] = "off" /\ ttlTimer'[s] # "off") =>
            Acquires(s) /\ ttl[s] /\ ttlTimer'[s] = "armed"
       /\ (ttlTimer[s] = "armed" /\ ttlTimer'[s] # "armed") =>
            ttlTimer'[s] = "fired" /\ ttlEvents'[s] = <<resourceId[s]>>
       /\ ttlTimer[s] = "fired" =>
            /\ ttlTimer'[s] = "fired" /\ ttlEvents'[s] = ttlEvents[s]
            /\ \A u \in unlocks'[s] \ unlocks[s] : u.origin # "ttl"]_vars

\* one session acquired with a ttl and its timer has fired, once; another
\* acquired without a ttl and has no timer
C17_Witness ==
  \E a, b \in Sessions :
    /\ ttl[a] /\ ttlTimer[a] = "fired" /\ Len(ttlEvents[a]) = 1
    /\ ~ttl[b] /\ lockReports[b] = <<"ok">> /\ ttlTimer[b] = "off"
    /\ ttlEvents[b] = <<>>

\* C18: session isolation: a step of session s removes no node but its own
\* seqZnode, every remove it has in flight names that node, and it changes
\* no other session's seqZnode, acquiredResource, lastChildId or
\* collisionCount.
C18_SessionIsolation ==
  [][\A s \in Sessions :
       /\ acquiredResource[s] \in {None, seqZnode[s]}
       /\ \A u \in unlocks[s] : u.path = seqZnode[s]
       /\ Step(s) =>
            /\ (nodes \ nodes') \subseteq {seqZnode[s]}
            /\ \A r \in Sessions \ {s} :
                 /\ seqZnode'[r] = seqZnode[r]
                 /\ acquiredResource'[r] = acquiredResource[r]
                 /\ lastChildId'[r] = lastChildId[r]
                 /\ collisionCount'[r] = collisionCount[r]]_vars

\* a polling session has failed behind a holder and removed its own node in
\* cleanup; the holder's node is still there and the holder still holds
C18_Witness ==
  \E a, b \in Sessions :
    /\ a # b /\ Holding(a)
    /\ lastChildId[b] = seqZnode[a]
    /\ pc[b] = "failed" /\ cleanupDone[b] = "ok" /\ seqZnode[b] \notin nodes

\* C19: polling-mode termination: with maxRetryCount >= 1, every store call
\* answered and every callback and timer run, a lock attempt eventually
\* reports one outcome to the caller, whatever the other sessions do and
\* whatever nodes the store deletes.
C19_PollingTerminates ==
  \A s \in Sessions :
    []((pc[s] = "create" /\ hasMaxRetry[s] /\ maxRetryCount[s] >= 1) =>
         <>(Len(lockReports[s]) = 1))

\* C20: single completion: the callback of one lock call is invoked at most
\* once, so never with a success and a failure; once it has been invoked
\* the acquisition chain is over: its position and its report never change
\* again, no answer is awaited, no watch event is pending for the session
\* and no watch of it stands on a node that exists or can still be created.
C20_SingleCompletion ==
  [][\A s \in Sessions :
       /\ Len(lockReports[s]) <= 1
       /\ (lockReports[s] # <<>>) = (pc[s] \in {"acquired", "failed"})
       /\ lockReports[s] = <<"ok">> => pc[s] = "acquired"
       /\ lockReports[s] = <<"fail">> => pc[s] = "failed"
       /\ lockReports[s] # <<>> =>
            /\ lockReports'[s] = lockReports[s] /\ pc'[s] = pc[s]
            /\ resp[s] = NoResp /\ resp'[s] = NoResp
            /\ \A e \in events : e[1] # s
            /\ \A w \in watches :
                 w[1] = s => /\ w[2] \notin nodes
                             /\ w[2] = None \/ SeqOf(w[2]) < nextSeq]_vars

\* a session that registered a watch on a node already gone went on to
\* acquire; its TTL has fired and released the lock, its watch still stands,
\* and its lock callback has been invoked once
C20_Witness ==
  \E s \in Sessions :
    /\ pc[s] = "acquired" /\ lockReports[s] = <<"ok">>
    /\ \E w \in watches : w[1] = s
    /\ ttlTimer[s] = "fired" /\ acquiredResource[s] = None
    /\ Len(unlockReports[s]) = 1

====
